---- MODULE Spec2Model ----
(***************************************************************************)
(* Model of the WebGL2 fluid simulation (sim.js, gl.js, ui.js, utils.js,   *)
(* main.js).  Grids are records carrying a resource handle, dimensions,    *)
(* texel size and a content stamp (<<tick, index>> of the pass that last   *)
(* wrote the grid, Blank for a freshly allocated or re-specified texture).  *)
(* Every                                                                   *)
(* call of the public API is one action; the passes (blit) and swaps it    *)
(* issues are recorded, in order, in `log`, and the state it started from  *)
(* in `call`.                                                              *)
(* Times are in milliseconds.  texelSize [1/w, 1/h] is kept as the pair of *)
(* denominators <<w, h>>.                                                  *)
(* `boot` is the state of the page load (main.js); a failing allocation   *)
(* is the ordinal of the createFBO call whose framebuffer is incomplete.   *)
(* The arithmetic of the projection shaders is modelled separately, on     *)
(* fixed-point field contents.                                             *)
(***************************************************************************)
EXTENDS Integers, Sequences, FiniteSets, TLC

VARIABLES config, framebuffers, simSize, canvasSize, colorCycleTimer,
          lastPointerColor, nextHandle, ticks, log, call, pointers,
          page, presented, gesture, boot

vars == <<config, framebuffers, simSize, canvasSize, colorCycleTimer,
          lastPointerColor, nextHandle, ticks, log, call, pointers,
          page, presented, gesture, boot>>

----------------------------------------------------------------------------
(* Bounds of the model *)

MaxTicks == 2
MaxImpulses == 2
MaxIterations == 2
MaxHandle == 28
MaxCoord == 1
MaxPointers == 1
MaxFrames == 3
MaxAmplitude == 2

(* Input sets *)
CanvasDims == {4, 12, 13}
DeltaTimes == {10, 600}
Colors == {<<1, 0, 0>>, <<0, 1, 0>>}
Downsamples == {1, 3}
BloomWidths == {4, 8, 12, 32}
BloomHeights == {4, 12}
BloomLevelValues == {1, 2, 3, 4}
BootDims == {12}
BootWidths == {4, 12}
BootIncompletes == 0..12
Incompletes == 0..4
ChainWidths == {4, 5, 12}
ProjectWidths == {6, 9, 12}
ProjectHeights == {6, 9}
Rotations == 1..MaxAmplitude
Radials == (-MaxAmplitude..MaxAmplitude) \ {0}

(* Program constants *)
DtCap == 16
FpsSampleMs == 100
MinDimension == 2
PressureDecayPermille == 915

Max(a, b) == IF a >= b THEN a ELSE b
Min(a, b) == IF a <= b THEN a ELSE b

----------------------------------------------------------------------------
(* sim.js: DEFAULT_CONFIG *)

DEFAULT_CONFIG ==
  [ pressureIterations |-> 40,
    splatForce         |-> 13800,
    texelDownsample    |-> 3,
    paused             |-> FALSE,
    cycleColors        |-> TRUE,
    colorCycleSpeed    |-> 500,
    enableBloom        |-> TRUE,
    bloomLevels        |-> 4 ]

(* sim.js: ensureDimension(value), value = n / d with n >= 0, d >= 1 *)
ensureDimensionMin1(n, d) == Max(1, n \div d)
ensureDimension(n, d) == Max(MinDimension, n \div d)

----------------------------------------------------------------------------
(* gl.js: grids *)

Blank == <<0, 0>>

NullGrid == [h |-> 0, width |-> 0, height |-> 0, format |-> "none",
             texelSize |-> <<0, 0>>, content |-> Blank]
NullField == [read |-> NullGrid, write |-> NullGrid]

assignTexelSize(target) == [target EXCEPT !.texelSize = <<target.width, target.height>>]

createFBO(h, width, height, internalFormat) ==
  assignTexelSize([h |-> h, width |-> width, height |-> height,
                   format |-> internalFormat, texelSize |-> <<0, 0>>,
                   content |-> Blank])

createDoubleFBO(h, width, height, internalFormat) ==
  [read  |-> createFBO(h, width, height, internalFormat),
   write |-> createFBO(h + 1, width, height, internalFormat)]

(* resizeFBO keeping the texel size of the old dimensions *)
resizeFBOStaleTexelSize(target, width, height) ==
  IF target.width = width /\ target.height = height
  THEN target
  ELSE [target EXCEPT !.width = width, !.height = height, !.content = Blank]

resizeFBO(target, width, height) ==
  IF target.width = width /\ target.height = height
  THEN target
  ELSE assignTexelSize([target EXCEPT !.width = width, !.height = height,
                                      !.content = Blank])

----------------------------------------------------------------------------
(* The simulation object (`this` of FluidSimulation) together with the     *)
(* bookkeeping of the model: m.ptrs are the pointer objects handed to the  *)
(* running call, m.log the passes and swaps issued so far by it.           *)

FieldNames == {"velocity", "density", "pressure"}

NoArgs == [uPoint |-> <<0, 0>>, uValue |-> <<0, 0, 0, 0>>, dt |-> 0]

Target(name, part, idx) == [name |-> name, part |-> part, idx |-> idx]
WriteOf(f) == Target(f, "write", 0)
Screen == Target("screen", "", 0)

GridAt(fb, t) ==
  CASE t.name \in FieldNames -> fb[t.name][t.part]
    [] t.name \in {"divergence", "curl"} -> fb[t.name]
    [] t.name = "bloom" -> fb.bloom[t.idx][t.part]
    [] OTHER -> NullGrid

Rendered(fb, t, stamp) ==
  CASE t.name \in FieldNames -> [fb EXCEPT ![t.name][t.part].content = stamp]
    [] t.name \in {"divergence", "curl"} -> [fb EXCEPT ![t.name].content = stamp]
    [] t.name = "bloom" -> [fb EXCEPT !.bloom[t.idx][t.part].content = stamp]
    [] OTHER -> fb

(* gl.js: blit(gl, target, material, uniforms).  srcs lists the sampler     *)
(* uniforms as <<name, handle of the texture bound>>.                       *)
blit(m, target, material, srcs, args) ==
  [m EXCEPT !.framebuffers = Rendered(m.framebuffers, target,
                                      <<m.tick, Len(m.log) + 1>>),
            !.log = Append(m.log,
                      [ev |-> "blit", prog |-> material, field |-> target.name,
                       target |-> GridAt(m.framebuffers, target).h,
                       srcs |-> srcs, args |-> args])]

(* gl.js: copyTexture(gl, target, sourceTexture) *)
copyTexture(m, target, sourceTexture) ==
  blit(m, target, "copy", <<<<"uTexture", sourceTexture>>>>, NoArgs)

(* gl.js: createDoubleFBO(...).swap() *)
swapAliases(m, f) ==
  [m EXCEPT !.framebuffers[f] = [read  |-> m.framebuffers[f].write,
                                 write |-> m.framebuffers[f].write],
            !.log = Append(m.log,
                      [ev |-> "swap", prog |-> "", field |-> f, target |-> 0,
                       srcs |-> <<>>, args |-> NoArgs])]

swap(m, f) ==
  [m EXCEPT !.framebuffers[f] = [read  |-> m.framebuffers[f].write,
                                 write |-> m.framebuffers[f].read],
            !.log = Append(m.log,
                      [ev |-> "swap", prog |-> "", field |-> f, target |-> 0,
                       srcs |-> <<>>, args |-> NoArgs])]

----------------------------------------------------------------------------
(* gl.js: createFBO throws when gl.checkFramebufferStatus does not report  *)
(* FRAMEBUFFER_COMPLETE.  `incomplete` is the ordinal, among the createFBO  *)
(* calls still to come, of the call whose framebuffer is incomplete (0 if   *)
(* there is none).  FailsIn: one of the next n calls throws; After: the     *)
(* ordinal once n calls have returned.                                     *)
FailsIn(incomplete, n) == incomplete >= 1 /\ incomplete <= n
After(incomplete, n) == IF incomplete = 0 THEN 0 ELSE incomplete - n
(* Textures created by n createFBO calls, or up to the one that throws *)
Consumed(incomplete, n) == IF FailsIn(incomplete, n) THEN incomplete ELSE n

(* sim.js: _setupBloomBuffers, its for loop from iteration i: the levels   *)
(* pushed, the next free handle and whether createFBO threw                *)
RECURSIVE BloomLoopNoBreak(_, _, _, _, _, _, _)
BloomLoopNoBreak(i, levels, width, height, h, incomplete, acc) ==
  IF ~(i < levels) THEN [bloom |-> acc, next |-> h, thrown |-> FALSE]
  ELSE IF FailsIn(incomplete, 2)
  THEN [bloom |-> acc, next |-> h + incomplete, thrown |-> TRUE]
  ELSE LET level == [buffer |-> createFBO(h, width, height, "RGBA16F"),
                     temp   |-> createFBO(h + 1, width, height, "RGBA16F")]
           w2 == ensureDimension(width, 2)
           h2 == ensureDimension(height, 2)
       IN BloomLoopNoBreak(i + 1, levels, w2, h2, h + 2, After(incomplete, 2),
                           Append(acc, level))

RECURSIVE BloomLoop(_, _, _, _, _, _, _)
BloomLoop(i, levels, width, height, h, incomplete, acc) ==
  IF ~(i < levels) THEN [bloom |-> acc, next |-> h, thrown |-> FALSE]
  ELSE IF FailsIn(incomplete, 2)
  THEN [bloom |-> acc, next |-> h + incomplete, thrown |-> TRUE]
  ELSE LET level == [buffer |-> createFBO(h, width, height, "RGBA16F"),
                     temp   |-> createFBO(h + 1, width, height, "RGBA16F")]
           w2 == ensureDimension(width, 2)
           h2 == ensureDimension(height, 2)
       IN IF w2 = 2 \/ h2 = 2
          THEN [bloom |-> Append(acc, level), next |-> h + 2, thrown |-> FALSE]
          ELSE BloomLoop(i + 1, levels, w2, h2, h + 2, After(incomplete, 2),
                         Append(acc, level))

(* sim.js: _setupBloomBuffers(baseWidth, baseHeight) *)
_setupBloomBuffers(m, baseWidth, baseHeight) ==
  LET levels == Max(1, m.config.bloomLevels)
      loop   == BloomLoop(0, levels, ensureDimension(baseWidth, 2),
                          ensureDimension(baseHeight, 2), m.nextHandle,
                          m.incomplete, <<>>)
  IN [m EXCEPT !.framebuffers.bloom = loop.bloom,
               !.nextHandle = loop.next,
               !.incomplete = IF loop.thrown THEN 0
                              ELSE After(m.incomplete, loop.next - m.nextHandle),
               !.thrown = loop.thrown]

(* sim.js: resize, the part after the early return.  A statement after a   *)
(* throw is not executed: the fields it would assign stay as they were.    *)
Reallocate(m, width, height, simWidth, simHeight) ==
  LET fb == m.framebuffers
      h0 == m.nextHandle
      f0 == m.incomplete
      nv == IF fb.velocity = NullField THEN 2 ELSE 0
      okv == ~FailsIn(f0, nv)
      vel == IF ~okv THEN fb.velocity
             ELSE IF fb.velocity = NullField
             THEN createDoubleFBO(h0, simWidth, simHeight, "RG16F")
             ELSE [read  |-> resizeFBO(fb.velocity.read, simWidth, simHeight),
                   write |-> resizeFBO(fb.velocity.write, simWidth, simHeight)]
      h1 == h0 + Consumed(f0, nv)
      f1 == After(f0, nv)
      nd == IF fb.density = NullField THEN 2 ELSE 0
      okd == okv /\ ~FailsIn(f1, nd)
      den == IF ~okd THEN fb.density
             ELSE IF fb.density = NullField
             THEN createDoubleFBO(h1, simWidth, simHeight, "RGBA16F")
             ELSE [read  |-> resizeFBO(fb.density.read, simWidth, simHeight),
                   write |-> resizeFBO(fb.density.write, simWidth, simHeight)]
      h2 == IF okv THEN h1 + Consumed(f1, nd) ELSE h1
      f2 == After(f1, nd)
      np == IF fb.pressure = NullField THEN 2 ELSE 0
      okp == okd /\ ~FailsIn(f2, np)
      pre == IF ~okp THEN fb.pressure
             ELSE IF fb.pressure = NullField
             THEN createDoubleFBO(h2, simWidth, simHeight, "R16F")
             ELSE [read  |-> resizeFBO(fb.pressure.read, simWidth, simHeight),
                   write |-> resizeFBO(fb.pressure.write, simWidth, simHeight)]
      h3 == IF okd THEN h2 + Consumed(f2, np) ELSE h2
      f3 == After(f2, np)
      ng == IF fb.divergence = NullGrid THEN 1 ELSE 0
      okg == okp /\ ~FailsIn(f3, ng)
      div == IF ~okg THEN fb.divergence
             ELSE IF fb.divergence = NullGrid
             THEN createFBO(h3, simWidth, simHeight, "R16F")
             ELSE resizeFBO(fb.divergence, simWidth, simHeight)
      h4 == IF okp THEN h3 + Consumed(f3, ng) ELSE h3
      f4 == After(f3, ng)
      nc == IF fb.curl = NullGrid THEN 1 ELSE 0
      okc == okg /\ ~FailsIn(f4, nc)
      cur == IF ~okc THEN fb.curl
             ELSE IF fb.curl = NullGrid
             THEN createFBO(h4, simWidth, simHeight, "R16F")
             ELSE resizeFBO(fb.curl, simWidth, simHeight)
      h5 == IF okg THEN h4 + Consumed(f4, nc) ELSE h4
      f5 == After(f4, nc)
      m1 == [m EXCEPT !.simSize = [width |-> simWidth, height |-> simHeight],
                      !.framebuffers = [velocity |-> vel, density |-> den,
                                        pressure |-> pre, divergence |-> div,
                                        curl |-> cur, bloom |-> fb.bloom],
                      !.nextHandle = h5,
                      !.incomplete = IF okc THEN f5 ELSE 0,
                      !.thrown = ~okc]
  IN IF okc THEN _setupBloomBuffers(m1, width, width) ELSE m1

(* sim.js: resize(width, height) *)
resizeAlways(m, width, height) ==
  LET m0 == [m EXCEPT !.canvasSize = [width |-> width, height |-> height]]
  IN Reallocate(m0, width, height,
                ensureDimension(width, m.config.texelDownsample),
                ensureDimension(height, m.config.texelDownsample))

resize(m, width, height) ==
  LET m0 == [m EXCEPT !.canvasSize = [width |-> width, height |-> height]]
      simWidth  == ensureDimension(width, m.config.texelDownsample)
      simHeight == ensureDimension(height, m.config.texelDownsample)
  IN IF m.simSize.width = simWidth /\ m.simSize.height = simHeight
     THEN m0
     ELSE Reallocate(m0, width, height, simWidth, simHeight)

(* sim.js: constructor(gl, config = {}), gl.canvas being width x height,   *)
(* color the value of randomColor(); env.shaders tells whether every       *)
(* program of _createMaterials compiles and links, env.incomplete which    *)
(* createFBO call finds its framebuffer incomplete.                        *)
Fresh(color, overrides, env) ==
  [config |-> [k \in DOMAIN DEFAULT_CONFIG |->
                 IF k \in DOMAIN overrides THEN overrides[k]
                 ELSE DEFAULT_CONFIG[k]],
   framebuffers |-> [velocity |-> NullField, density |-> NullField,
                     pressure |-> NullField, divergence |-> NullGrid,
                     curl |-> NullGrid, bloom |-> <<>>],
   simSize |-> [width |-> 0, height |-> 0],
   canvasSize |-> [width |-> 0, height |-> 0],
   colorCycleTimer |-> 0,
   lastPointerColor |-> color,
   nextHandle |-> 1, tick |-> 0, log |-> <<>>, ptrs |-> <<>>,
   incomplete |-> env.incomplete, thrown |-> FALSE]

Constructed(width, height, color, overrides, env) ==
  LET m == Fresh(color, overrides, env)
  IN IF ~env.shaders THEN [m EXCEPT !.thrown = TRUE]
     ELSE resize(m, width, height)

(* The environment in which no shader and no framebuffer fails *)
Healthy == [webgl2 |-> TRUE, colorBufferFloat |-> TRUE, copyShader |-> TRUE,
            shaders |-> TRUE, incomplete |-> 0]

----------------------------------------------------------------------------
(* sim.js: the passes of the simulation *)

Tex(m, f, part) == m.framebuffers[f][part].h

(* sim.js: splat(x, y, dx, dy, color) *)
splatNoVelocitySwap(m, point, delta, color) ==
  LET m1 == blit(m, WriteOf("velocity"), "splat",
                 <<<<"uTarget", Tex(m, "velocity", "read")>>>>,
                 [uPoint |-> point,
                  uValue |-> <<delta[1] * m.config.splatForce,
                               delta[2] * m.config.splatForce, 0, 0>>,
                  dt |-> 0])
      m3 == blit(m1, WriteOf("density"), "splat",
                 <<<<"uTarget", Tex(m1, "density", "read")>>>>,
                 [uPoint |-> point,
                  uValue |-> <<color[1], color[2], color[3], 1>>,
                  dt |-> 0])
      m4 == swap(m3, "density")
  IN [m4 EXCEPT !.lastPointerColor = color]

splat(m, point, delta, color) ==
  LET m1 == blit(m, WriteOf("velocity"), "splat",
                 <<<<"uTarget", Tex(m, "velocity", "read")>>>>,
                 [uPoint |-> point,
                  uValue |-> <<delta[1] * m.config.splatForce,
                               delta[2] * m.config.splatForce, 0, 0>>,
                  dt |-> 0])
      m2 == swap(m1, "velocity")
      m3 == blit(m2, WriteOf("density"), "splat",
                 <<<<"uTarget", Tex(m2, "density", "read")>>>>,
                 [uPoint |-> point,
                  uValue |-> <<color[1], color[2], color[3], 1>>,
                  dt |-> 0])
      m4 == swap(m3, "density")
  IN [m4 EXCEPT !.lastPointerColor = color]

(* sim.js: applyPointer(pointer, randomizeColor), pointer = m.ptrs[i];     *)
(* fresh is the value randomColor() returns if it is called.               *)
applyPointerNoZeroCheck(m, i, randomizeColor, fresh) ==
  LET pointer == m.ptrs[i]
  IN IF ~pointer.moved \/ ~pointer.down THEN m
     ELSE LET color == IF randomizeColor THEN fresh ELSE pointer.color
              m1 == [m EXCEPT !.ptrs[i].color = color]
              m2 == splat(m1, pointer.position, pointer.delta, color)
          IN [m2 EXCEPT !.ptrs[i].moved = FALSE]

applyPointerClearsDelta(m, i, randomizeColor, fresh) ==
  LET pointer == m.ptrs[i]
      dx == pointer.delta[1]
      dy == pointer.delta[2]
  IN IF ~pointer.moved \/ ~pointer.down THEN m
     ELSE IF dx = 0 /\ dy = 0 THEN m
     ELSE LET color == IF randomizeColor THEN fresh ELSE pointer.color
              m1 == [m EXCEPT !.ptrs[i].color = color]
              m2 == splat(m1, pointer.position, <<dx, dy>>, color)
          IN [m2 EXCEPT !.ptrs[i].moved = FALSE, !.ptrs[i].delta = <<0, 0>>]

applyPointer(m, i, randomizeColor, fresh) ==
  LET pointer == m.ptrs[i]
      dx == pointer.delta[1]
      dy == pointer.delta[2]
  IN IF ~pointer.moved \/ ~pointer.down THEN m
     ELSE IF dx = 0 /\ dy = 0 THEN m
     ELSE LET color == IF randomizeColor THEN fresh ELSE pointer.color
              m1 == [m EXCEPT !.ptrs[i].color = color]
              m2 == splat(m1, pointer.position, <<dx, dy>>, color)
          IN [m2 EXCEPT !.ptrs[i].moved = FALSE]

(* sim.js: step, pointers.forEach((pointer) => this.applyPointer(...)) *)
RECURSIVE ForEachPointer(_, _, _, _)
ForEachPointer(m, i, randomizeColor, rnd) ==
  IF i > Len(m.ptrs) THEN m
  ELSE ForEachPointer(applyPointer(m, i, randomizeColor, rnd[i]), i + 1,
                      randomizeColor, rnd)

(* sim.js: _advectVelocity(deltaTime) *)
_advectVelocity(m, deltaTime) ==
  swap(blit(m, WriteOf("velocity"), "advection",
            << <<"uVelocity", Tex(m, "velocity", "read")>>,
               <<"uSource", Tex(m, "velocity", "read")>> >>,
            [NoArgs EXCEPT !.dt = deltaTime]),
       "velocity")

(* sim.js: _advectDye(deltaTime) *)
_advectDyeStaleVelocity(m, deltaTime) ==
  swap(blit(m, WriteOf("density"), "advection",
            << <<"uVelocity", Tex(m, "velocity", "write")>>,
               <<"uSource", Tex(m, "density", "read")>> >>,
            [NoArgs EXCEPT !.dt = deltaTime]),
       "density")

_advectDye(m, deltaTime) ==
  swap(blit(m, WriteOf("density"), "advection",
            << <<"uVelocity", Tex(m, "velocity", "read")>>,
               <<"uSource", Tex(m, "density", "read")>> >>,
            [NoArgs EXCEPT !.dt = deltaTime]),
       "density")

(* sim.js: _applyVorticity(deltaTime) *)
_applyVorticityNoSwap(m, deltaTime) ==
  LET m1 == blit(m, Target("curl", "", 0), "curl",
                 << <<"uVelocity", Tex(m, "velocity", "read")>> >>, NoArgs)
  IN blit(m1, WriteOf("velocity"), "vorticity",
          << <<"uVelocity", Tex(m1, "velocity", "read")>>,
             <<"uCurl", m1.framebuffers.curl.h>> >>,
          [NoArgs EXCEPT !.dt = deltaTime])

_applyVorticity(m, deltaTime) ==
  LET m1 == blit(m, Target("curl", "", 0), "curl",
                 << <<"uVelocity", Tex(m, "velocity", "read")>> >>, NoArgs)
      m2 == blit(m1, WriteOf("velocity"), "vorticity",
                 << <<"uVelocity", Tex(m1, "velocity", "read")>>,
                    <<"uCurl", m1.framebuffers.curl.h>> >>,
                 [NoArgs EXCEPT !.dt = deltaTime])
  IN swap(m2, "velocity")

(* sim.js: _computeDivergence() *)
_computeDivergence(m) ==
  blit(m, Target("divergence", "", 0), "divergence",
       << <<"uVelocity", Tex(m, "velocity", "read")>> >>, NoArgs)

(* sim.js: _solvePressure, its for loop from iteration i *)
RECURSIVE JacobiLoop(_, _, _)
JacobiLoop(m, i, iterations) ==
  IF ~(i < iterations) THEN m
  ELSE JacobiLoop(
         swap(blit(m, WriteOf("pressure"), "pressure",
                   << <<"uPressure", Tex(m, "pressure", "read")>>,
                      <<"uDivergence", m.framebuffers.divergence.h>> >>,
                   NoArgs),
              "pressure"),
         i + 1, iterations)

(* sim.js: _solvePressure() *)
_solvePressureOneMore(m) ==
  LET m1 == swap(blit(m, WriteOf("pressure"), "clear",
                      << <<"uPressure", Tex(m, "pressure", "read")>> >>, NoArgs),
                 "pressure")
  IN JacobiLoop(m1, 0, m.config.pressureIterations + 1)

_solvePressure(m) ==
  LET m1 == swap(blit(m, WriteOf("pressure"), "clear",
                      << <<"uPressure", Tex(m, "pressure", "read")>> >>, NoArgs),
                 "pressure")
  IN JacobiLoop(m1, 0, m.config.pressureIterations)

(* sim.js: _subtractPressureGradient() *)
_subtractPressureGradient(m) ==
  swap(blit(m, WriteOf("velocity"), "gradient",
            << <<"uPressure", Tex(m, "pressure", "read")>>,
               <<"uVelocity", Tex(m, "velocity", "read")>> >>,
            NoArgs),
       "velocity")

(* sim.js: step(deltaTime, pointers), pointers = m.ptrs; rnd[i] is the     *)
(* colour randomColor() returns when called for pointer i.                 *)
stepIgnoresPause(m, deltaTime, rnd) ==
  LET timer == m.colorCycleTimer + deltaTime
      ramdomizeColor == m.config.cycleColors /\ timer > m.config.colorCycleSpeed
      m0 == [m EXCEPT !.colorCycleTimer = IF ramdomizeColor THEN 0 ELSE timer]
      m1 == ForEachPointer(m0, 1, ramdomizeColor, rnd)
      cappedDt == Min(deltaTime, DtCap)
      m2 == _advectVelocity(m1, cappedDt)
      m3 == _applyVorticity(m2, cappedDt)
      m4 == _computeDivergence(m3)
      m5 == _solvePressure(m4)
      m6 == _subtractPressureGradient(m5)
  IN _advectDye(m6, cappedDt)

stepDyeBeforeProjection(m, deltaTime, rnd) ==
  IF m.config.paused THEN m
  ELSE
  LET timer == m.colorCycleTimer + deltaTime
      ramdomizeColor == m.config.cycleColors /\ timer > m.config.colorCycleSpeed
      m0 == [m EXCEPT !.colorCycleTimer = IF ramdomizeColor THEN 0 ELSE timer]
      m1 == ForEachPointer(m0, 1, ramdomizeColor, rnd)
      cappedDt == Min(deltaTime, DtCap)
      m2 == _advectVelocity(m1, cappedDt)
      m3 == _applyVorticity(m2, cappedDt)
      m4 == _computeDivergence(m3)
      m5 == _solvePressure(m4)
      m6 == _advectDye(m5, cappedDt)
  IN _subtractPressureGradient(m6)

stepUncappedDt(m, deltaTime, rnd) ==
  IF m.config.paused THEN m
  ELSE
  LET timer == m.colorCycleTimer + deltaTime
      ramdomizeColor == m.config.cycleColors /\ timer > m.config.colorCycleSpeed
      m0 == [m EXCEPT !.colorCycleTimer = IF ramdomizeColor THEN 0 ELSE timer]
      m1 == ForEachPointer(m0, 1, ramdomizeColor, rnd)
      cappedDt == deltaTime
      m2 == _advectVelocity(m1, cappedDt)
      m3 == _applyVorticity(m2, cappedDt)
      m4 == _computeDivergence(m3)
      m5 == _solvePressure(m4)
      m6 == _subtractPressureGradient(m5)
  IN _advectDye(m6, cappedDt)

step(m, deltaTime, rnd) ==
  IF m.config.paused THEN m
  ELSE
  LET timer == m.colorCycleTimer + deltaTime
      ramdomizeColor == m.config.cycleColors /\ timer > m.config.colorCycleSpeed
      m0 == [m EXCEPT !.colorCycleTimer = IF ramdomizeColor THEN 0 ELSE timer]
      m1 == ForEachPointer(m0, 1, ramdomizeColor, rnd)
      cappedDt == Min(deltaTime, DtCap)
      m2 == _advectVelocity(m1, cappedDt)
      m3 == _applyVorticity(m2, cappedDt)
      m4 == _computeDivergence(m3)
      m5 == _solvePressure(m4)
      m6 == _subtractPressureGradient(m5)
  IN _advectDye(m6, cappedDt)

(* sim.js: _runBloom, the downsample loop from level i (1-based) *)
RECURSIVE BloomCopyLoop(_, _)
BloomCopyLoop(m, i) ==
  IF i > Len(m.framebuffers.bloom) THEN m
  ELSE BloomCopyLoop(
         copyTexture(m, Target("bloom", "buffer", i),
                     m.framebuffers.bloom[i - 1].buffer.h),
         i + 1)

(* sim.js: _runBloom, the blur loop from level i *)
RECURSIVE BloomBlurLoop(_, _)
BloomBlurLoop(m, i) ==
  IF i > Len(m.framebuffers.bloom) THEN m
  ELSE LET level == m.framebuffers.bloom[i]
           m1 == blit(m, Target("bloom", "temp", i), "bloomBlur",
                      << <<"uTexture", level.buffer.h>> >>,
                      [NoArgs EXCEPT !.uPoint = <<1, 0>>])
           m2 == blit(m1, Target("bloom", "buffer", i), "bloomBlur",
                      << <<"uTexture", level.temp.h>> >>,
                      [NoArgs EXCEPT !.uPoint = <<0, 1>>])
       IN BloomBlurLoop(m2, i + 1)

(* sim.js: _runBloom, the combine loop from level i downwards *)
RECURSIVE BloomCombineLoopInPlace(_, _, _)
BloomCombineLoopInPlace(m, i, currentTexture) ==
  IF i < 1 THEN m
  ELSE LET level == m.framebuffers.bloom[i]
           m1 == blit(m, Target("bloom", "buffer", i), "bloomCombine",
                      << <<"uBase", level.buffer.h>>,
                         <<"uBloom", currentTexture>> >>, NoArgs)
       IN BloomCombineLoopInPlace(m1, i - 1, level.buffer.h)

RECURSIVE BloomCombineLoop(_, _, _)
BloomCombineLoop(m, i, currentTexture) ==
  IF i < 1 THEN m
  ELSE LET level == m.framebuffers.bloom[i]
           m1 == blit(m, Target("bloom", "temp", i), "bloomCombine",
                      << <<"uBase", level.buffer.h>>,
                         <<"uBloom", currentTexture>> >>, NoArgs)
           m2 == copyTexture(m1, Target("bloom", "buffer", i), level.temp.h)
       IN BloomCombineLoop(m2, i - 1, level.buffer.h)

(* _runBloom blurring the levels before the downsample copies *)
_runBloomBlurFirst(m) ==
  LET bloom == m.framebuffers.bloom
      n == Len(bloom)
  IN IF n = 0
     THEN [m |-> m, texture |-> m.framebuffers.density.read.h]
     ELSE LET m1 == blit(m, Target("bloom", "buffer", 1), "bloomPrefilter",
                         << <<"uTexture", m.framebuffers.density.read.h>> >>,
                         NoArgs)
              m2 == BloomBlurLoop(m1, 1)
              m3 == BloomCopyLoop(m2, 2)
              m4 == BloomCombineLoop(m3, n - 1, bloom[n].buffer.h)
          IN [m |-> m4, texture |-> bloom[1].buffer.h]

(* sim.js: _runBloom(): the simulation after its passes, and the texture   *)
(* it returns                                                              *)
_runBloom(m) ==
  LET bloom == m.framebuffers.bloom
      n == Len(bloom)
  IN IF n = 0
     THEN [m |-> m, texture |-> m.framebuffers.density.read.h]
     ELSE LET m1 == blit(m, Target("bloom", "buffer", 1), "bloomPrefilter",
                         << <<"uTexture", m.framebuffers.density.read.h>> >>,
                         NoArgs)
              m2 == BloomCopyLoop(m1, 2)
              m3 == BloomBlurLoop(m2, 1)
              m4 == BloomCombineLoop(m3, n - 1, bloom[n].buffer.h)
          IN [m |-> m4, texture |-> bloom[1].buffer.h]

(* render running the bloom passes whatever enableBloom says *)
renderAlwaysBloom(m) ==
  LET run == IF Len(m.framebuffers.bloom) > 0
             THEN _runBloom(m)
             ELSE [m |-> m, texture |-> 0]
      dye == run.m.framebuffers.density.read.h
  IN blit(run.m, Screen, "display",
          << <<"uTexture", dye>>,
             <<"uBloom", IF run.texture # 0 THEN run.texture ELSE dye>> >>,
          NoArgs)

(* sim.js: render() *)
render(m) ==
  LET run == IF m.config.enableBloom /\ Len(m.framebuffers.bloom) > 0
             THEN _runBloom(m)
             ELSE [m |-> m, texture |-> 0]
      dye == run.m.framebuffers.density.read.h
  IN blit(run.m, Screen, "display",
          << <<"uTexture", dye>>,
             <<"uBloom", IF run.texture # 0 THEN run.texture ELSE dye>> >>,
          NoArgs)

(* sim.js: updateConfig(partial), partial = {key: value} *)
updateConfig(m, key, value) == [m EXCEPT !.config[key] = value]

----------------------------------------------------------------------------
(* State of the program and its actions *)

This ==
  [config |-> config, framebuffers |-> framebuffers, simSize |-> simSize,
   canvasSize |-> canvasSize, colorCycleTimer |-> colorCycleTimer,
   lastPointerColor |-> lastPointerColor, nextHandle |-> nextHandle,
   tick |-> ticks + 1, log |-> <<>>, ptrs |-> <<>>,
   incomplete |-> 0, thrown |-> FALSE]

Commit(m) ==
  /\ config' = m.config
  /\ framebuffers' = m.framebuffers
  /\ simSize' = m.simSize
  /\ canvasSize' = m.canvasSize
  /\ colorCycleTimer' = m.colorCycleTimer
  /\ lastPointerColor' = m.lastPointerColor
  /\ nextHandle' = m.nextHandle
  /\ log' = m.log

(* What the last call was: its name, the configuration and grids it        *)
(* started from, its arguments, and the impulse records before and after.  *)
Called(op, dt, width, height, in, out) ==
  [op |-> op, cfg |-> config, pre |-> framebuffers, preSize |-> simSize,
   preTimer |-> colorCycleTimer, preHandle |-> nextHandle,
   presented |-> presented, gesture |-> gesture, dt |-> dt,
   width |-> width, height |-> height, in |-> in, out |-> out]

(* The impulse records a caller of step may pass (section 6 of the spec:   *)
(* position, delta, down, moved, color).                                   *)
Impulse(down, moved, delta) ==
  [down |-> down, moved |-> moved, position |-> <<1, 0>>, delta |-> delta,
   color |-> <<1, 0, 0>>]
Impulses == {Impulse(TRUE, TRUE, <<1, 0>>), Impulse(TRUE, TRUE, <<0, 0>>),
             Impulse(TRUE, FALSE, <<1, 0>>), Impulse(FALSE, TRUE, <<1, 0>>)}

(* main.js and gl.js: what the page holds once the module has run: the   *)
(* context, the fullscreen quad and copy material of gl.js, the materials  *)
(* of the simulation, the simulation and ui objects, the message of the    *)
(* error banner, whether the error was rethrown and whether the frame loop *)
(* was started; faulted tells whether a later resize has thrown.           *)
NotLoaded ==
  [gl |-> FALSE, quadVAO |-> FALSE, blitMaterial |-> FALSE,
   materials |-> FALSE, simulation |-> FALSE, ui |-> FALSE,
   error |-> "", rethrown |-> FALSE, loop |-> FALSE, loaded |-> FALSE,
   faulted |-> FALSE]

Started ==
  [gl |-> TRUE, quadVAO |-> TRUE, blitMaterial |-> TRUE,
   materials |-> TRUE, simulation |-> TRUE, ui |-> TRUE,
   error |-> "", rethrown |-> FALSE, loop |-> TRUE, loaded |-> TRUE,
   faulted |-> FALSE]

InitOn(dims, colors, iters) ==
  \E width \in dims, height \in dims, color \in colors, iterations \in iters :
    LET m == Constructed(width, height, color,
                         [pressureIterations |-> iterations], Healthy)
    IN /\ config = m.config
       /\ framebuffers = m.framebuffers
       /\ simSize = m.simSize
       /\ canvasSize = m.canvasSize
       /\ colorCycleTimer = m.colorCycleTimer
       /\ lastPointerColor = m.lastPointerColor
       /\ nextHandle = m.nextHandle
       /\ log = m.log
       /\ ticks = 0
       /\ pointers = <<>>
       /\ page = [now |-> 1000, lastFpsSample |-> 0, fps |-> 0, frames |-> 0]
       /\ presented = {}
       /\ gesture = <<>>
       /\ boot = Started
       /\ call = [op |-> "constructor", cfg |-> m.config,
                  pre |-> m.framebuffers, preSize |-> m.simSize,
                  preTimer |-> 0, preHandle |-> m.nextHandle,
                  presented |-> {}, gesture |-> <<>>, dt |-> 0,
                  width |-> width, height |-> height, in |-> <<>>, out |-> <<>>]

Init == InitOn({12}, Colors, {0, MaxIterations})

InitOne == InitOn({12}, {<<1, 0, 0>>}, {MaxIterations})

(* The values randomColor() may return to a call of step for its n        *)
(* pointers: it is only called when the colour cycle fires in that call.   *)
FreshColors(n, deltaTime) ==
  IF ~config.paused /\ config.cycleColors
     /\ colorCycleTimer + deltaTime > config.colorCycleSpeed
  THEN [1..n -> Colors]
  ELSE {[i \in 1..n |-> CHOOSE c \in Colors : TRUE]}

(* The caller of step puts one more impulse record in the array it passes *)
AddImpulse ==
  \E impulse \in Impulses :
    /\ Len(pointers) < MaxImpulses
    /\ pointers' = Append(pointers, impulse)
    /\ log' = <<>>
    /\ call' = Called("caller", 0, 0, 0, <<>>, <<>>)
    /\ UNCHANGED <<config, framebuffers, simSize, canvasSize, colorCycleTimer,
                   lastPointerColor, nextHandle, ticks, page, presented, gesture, boot>>

(* The caller of step empties the array it passes *)
DropImpulses ==
  /\ pointers # <<>>
  /\ pointers' = <<>>
  /\ log' = <<>>
  /\ call' = Called("caller", 0, 0, 0, <<>>, <<>>)
  /\ UNCHANGED <<config, framebuffers, simSize, canvasSize, colorCycleTimer,
                 lastPointerColor, nextHandle, ticks, page, presented, gesture, boot>>

(* simulation.step(deltaTime, pointers) *)
Step ==
  \E deltaTime \in DeltaTimes :
    \E rnd \in FreshColors(Len(pointers), deltaTime) :
      LET m == step([This EXCEPT !.ptrs = pointers], deltaTime, rnd)
      IN /\ config.paused \/ ticks < MaxTicks
         /\ Commit(m)
         /\ ticks' = IF config.paused THEN ticks ELSE ticks + 1
         /\ pointers' = m.ptrs
         /\ call' = Called("step", deltaTime, 0, 0, pointers, m.ptrs)
         /\ UNCHANGED <<page, presented, gesture, boot>>

(* simulation.updateConfig({key: value}), or the GUI control of key *)
UpdateConfigOf(key, values) ==
  \E value \in values :
    LET m == updateConfig(This, key, value)
    IN /\ config[key] # value
       /\ Commit(m)
       /\ call' = Called("updateConfig", 0, 0, 0, <<>>, <<>>)
       /\ UNCHANGED <<ticks, pointers, page, presented, gesture, boot>>

SetPaused == UpdateConfigOf("paused", BOOLEAN)

SetPressureIterations == UpdateConfigOf("pressureIterations", 0..MaxIterations)

Next == AddImpulse \/ DropImpulses \/ Step \/ SetPaused

Spec == Init /\ [][Next]_vars

(* simulation.resize(width, height), the driver's resize notification *)
ResizeTo(widths, heights) ==
  \E width \in widths, height \in heights :
    LET m == resize(This, width, height)
    IN /\ m.nextHandle <= MaxHandle
       /\ Commit(m)
       /\ call' = Called("resize", 0, width, height, <<>>, <<>>)
       /\ UNCHANGED <<ticks, pointers, page, presented, gesture, boot>>

Resize == ResizeTo(CanvasDims, CanvasDims)

(* simulation.updateConfig({texelDownsample: d}) *)
SetTexelDownsample == UpdateConfigOf("texelDownsample", Downsamples)

(* ui.js: the Downsample control, cfg.texelDownsample = d followed by      *)
(* onFinishChange: simulation.resize(canvas.width, canvas.height)          *)
ChangeDownsample ==
  \E d \in Downsamples :
    LET m0 == updateConfig(This, "texelDownsample", d)
        m  == resize(m0, canvasSize.width, canvasSize.height)
    IN /\ config.texelDownsample # d
       /\ m.nextHandle <= MaxHandle
       /\ Commit(m)
       /\ call' = [Called("resize", 0, canvasSize.width, canvasSize.height,
                          <<>>, <<>>) EXCEPT !.cfg = m0.config]
       /\ UNCHANGED <<ticks, pointers, page, presented, gesture, boot>>

NextResize == Resize \/ SetTexelDownsample \/ ChangeDownsample \/ Step

SpecResize == InitOne /\ [][NextResize]_vars

----------------------------------------------------------------------------
(* utils.js and ui.js: pointers.  ui.pointers (a Map, iterated in          *)
(* insertion order) is the sequence `pointers` of records with an id.      *)

PointerIds == 1..MaxPointers

(* utils.js: clamp(value, min, max) *)
clamp(value, min, max) == Max(min, Min(max, value))

(* utils.js: getNormalizedPointer(event, canvas), in units of 1/MaxCoord,  *)
(* the canvas rectangle being [0, MaxCoord] x [0, MaxCoord]                *)
getNormalizedPointer(clientX, clientY) ==
  <<clamp(clientX, 0, MaxCoord), clamp(MaxCoord - clientY, 0, MaxCoord)>>

(* utils.js: createPointer(id), color the value of randomColor() *)
createPointer(id, color) ==
  [id |-> id, down |-> FALSE, moved |-> FALSE, position |-> <<0, 0>>,
   previous |-> <<0, 0>>, delta |-> <<0, 0>>, color |-> color]

(* updatePointerCoordinates marking the pointer moved on a press as well *)
updatePointerCoordinatesAlwaysMoved(pointer, x, y, mouseDown) ==
  [pointer EXCEPT !.previous = pointer.position,
                  !.position = <<x, y>>,
                  !.delta = <<x - pointer.position[1], y - pointer.position[2]>>,
                  !.moved = TRUE]

(* utils.js: updatePointerCoordinates(pointer, x, y, mouseDown) *)
updatePointerCoordinates(pointer, x, y, mouseDown) ==
  [pointer EXCEPT !.previous = pointer.position,
                  !.position = <<x, y>>,
                  !.delta = <<x - pointer.position[1], y - pointer.position[2]>>,
                  !.moved = ~mouseDown]

(* Map.get / Map.set / Map.delete on ui.pointers *)
IndexOf(id) ==
  LET hits == {i \in 1..Len(pointers) : pointers[i].id = id}
  IN IF hits = {} THEN 0 ELSE CHOOSE i \in hits : TRUE

MapSet(id, pointer) ==
  IF IndexOf(id) = 0 THEN Append(pointers, pointer)
  ELSE [pointers EXCEPT ![IndexOf(id)] = pointer]

MapDelete(id) == SelectSeq(pointers, LAMBDA p : p.id # id)

ClientCoords == 0..MaxCoord

(* Pointer events along the top edge of the canvas *)
TopEdge == {0}

SimUnchanged ==
  UNCHANGED <<config, framebuffers, simSize, canvasSize, colorCycleTimer,
              lastPointerColor, nextHandle, ticks, page, boot>>

(* ui.js: onPointerDown(event): ui.pointers after the event *)
onPointerDown(id, button, clientX, clientY, color) ==
  IF button # 0 THEN pointers
  ELSE LET xy == getNormalizedPointer(clientX, clientY)
           pointer == [updatePointerCoordinates(createPointer(id, color),
                                                xy[1], xy[2], TRUE)
                       EXCEPT !.down = TRUE]
       IN MapSet(id, pointer)

(* ui.js: onPointerMove(event): ui.pointers after the event *)
onPointerMove(id, clientX, clientY) ==
  IF IndexOf(id) = 0 THEN pointers
  ELSE LET xy == getNormalizedPointer(clientX, clientY)
       IN MapSet(id, updatePointerCoordinates(pointers[IndexOf(id)],
                                              xy[1], xy[2], FALSE))

(* onPointerUp keeping the released record in ui.pointers *)
onPointerUpNoDelete(id) ==
  IF IndexOf(id) = 0 THEN pointers
  ELSE [pointers EXCEPT ![IndexOf(id)].down = FALSE,
                        ![IndexOf(id)].moved = FALSE]

(* ui.js: onPointerUp(event): ui.pointers after the event *)
onPointerUp(id) ==
  IF IndexOf(id) = 0 THEN pointers
  ELSE MapDelete(id)

(* History of the pointers that are held (pressed with the primary button  *)
(* and not yet released or cancelled), kept beside the program: for each   *)
(* of them, whether a move event came after its press and after the last   *)
(* splat applied for it, and its position at the last tick that ran since  *)
(* it was pressed (its press position before that).                        *)
Pressed(id, xy) == (id :> [fresh |-> FALSE, at |-> xy]) @@ gesture

Moved(id) ==
  IF id \in DOMAIN gesture THEN [gesture EXCEPT ![id].fresh = TRUE]
  ELSE gesture

Released(id) == [i \in DOMAIN gesture \ {id} |-> gesture[i]]

(* The pointers for which a tick applied a splat: those whose moved flag   *)
(* the tick cleared (before, after: the records handed to step)            *)
SplatApplied(before, after) ==
  {before[i].id : i \in {j \in 1..Len(before) :
                           before[j].moved /\ ~after[j].moved}}

Ticked(before, after) ==
  [id \in DOMAIN gesture |->
     LET hits == {i \in 1..Len(before) : before[i].id = id}
     IN [fresh |-> gesture[id].fresh /\ id \notin SplatApplied(before, after),
         at    |-> IF hits = {} THEN gesture[id].at
                   ELSE before[CHOOSE i \in hits : TRUE].position]]

(* A pointerdown event on the canvas *)
PointerDownOn(ids, buttons, clientXs, clientYs, colors) ==
  \E id \in ids, button \in buttons, clientX \in clientXs,
     clientY \in clientYs, color \in colors :
    /\ pointers' = onPointerDown(id, button, clientX, clientY, color)
    /\ presented' = presented \ {id}
    /\ gesture' = IF button = 0
                  THEN Pressed(id, getNormalizedPointer(clientX, clientY))
                  ELSE gesture
    /\ log' = <<>>
    /\ call' = Called("pointerdown", 0, 0, 0, <<id, button>>, <<>>)
    /\ SimUnchanged

PointerDown == PointerDownOn(PointerIds, {0}, ClientCoords, TopEdge, Colors)

(* A pointermove event on the canvas *)
PointerMoveOn(ids, clientXs, clientYs) ==
  \E id \in ids, clientX \in clientXs, clientY \in clientYs :
    /\ pointers' = onPointerMove(id, clientX, clientY)
    /\ presented' = presented \ {id}
    /\ gesture' = Moved(id)
    /\ log' = <<>>
    /\ call' = Called("pointermove", 0, 0, 0, <<id>>, <<>>)
    /\ SimUnchanged

PointerMove ==
  PointerMoveOn({id \in PointerIds : IndexOf(id) # 0}, ClientCoords, TopEdge)

(* A pointerup or pointercancel event on the canvas (the same listener) *)
PointerUpOn(ids) ==
  \E id \in ids :
    /\ pointers' = onPointerUp(id)
    /\ presented' = presented \ {id}
    /\ gesture' = Released(id)
    /\ log' = <<>>
    /\ call' = Called("pointerup", 0, 0, 0, <<id>>, <<>>)
    /\ SimUnchanged

PointerUp == PointerUpOn({id \in PointerIds : IndexOf(id) # 0})

(* ui.js: update(deltaTime, now), times in milliseconds, fps in tenths *)
update(pg, deltaTime, now) ==
  IF now - pg.lastFpsSample > FpsSampleMs
  THEN [pg EXCEPT !.fps = (20000 + deltaTime) \div (2 * deltaTime),
                  !.lastFpsSample = now]
  ELSE pg

(* frame rendering before it steps *)
frameRenderFirst(m, deltaTime, rnd) == step(render(m), deltaTime, rnd)

(* main.js: frame(now), the simulation part: step, then render *)
frame(m, deltaTime, rnd) == render(step(m, deltaTime, rnd))

(* main.js: frame(now), delta being the time since the previous frame;     *)
(* `presented` records the pointers a paused step was given while they     *)
(* were down and moved with a non-zero delta, until their next event.      *)
FrameOf(deltaTimes) ==
  \E deltaTime \in deltaTimes :
    \E rnd \in FreshColors(Len(pointers), deltaTime) :
      LET m == frame([This EXCEPT !.ptrs = pointers], deltaTime, rnd)
          now == page.now + deltaTime
      IN /\ boot.loop
         /\ page.frames < MaxFrames
         /\ config.paused \/ ticks < MaxTicks
         /\ UNCHANGED boot
         /\ Commit(m)
         /\ ticks' = IF config.paused THEN ticks ELSE ticks + 1
         /\ pointers' = m.ptrs
         /\ page' = [update(page, deltaTime, now) EXCEPT !.now = now,
                                                         !.frames = page.frames + 1]
         /\ presented' =
              IF config.paused
              THEN presented \cup
                     {pointers[i].id : i \in {j \in 1..Len(pointers) :
                        /\ pointers[j].down /\ pointers[j].moved
                        /\ pointers[j].delta # <<0, 0>>}}
              ELSE {}
         /\ gesture' = IF config.paused THEN gesture
                       ELSE Ticked(pointers, m.ptrs)
         /\ call' = Called("frame", deltaTime, 0, 0, pointers, m.ptrs)

Frame == FrameOf(DeltaTimes)

(* Pointer gestures of two pointers interleaved with frames: presses with  *)
(* the primary and with another button, moves and releases of pointers     *)
(* that are held and of pointers that are not                              *)
GestureIds == {1, 2}
GestureButtons == {0, 2}
GestureXs == {0, 1}
GestureColors == {<<1, 0, 0>>}
GestureDeltaTimes == {10}

GestureDown ==
  PointerDownOn(GestureIds, GestureButtons, GestureXs, TopEdge, GestureColors)

GestureMove == PointerMoveOn(GestureIds, GestureXs, TopEdge)

GestureUp == PointerUpOn(GestureIds)

GestureFrame == FrameOf(GestureDeltaTimes)

NextGesture == GestureDown \/ GestureMove \/ GestureUp \/ GestureFrame

SpecGesture == InitOne /\ [][NextGesture]_vars

NextUI == PointerDown \/ PointerMove \/ PointerUp \/ Frame \/ SetPaused

SpecUI == InitOne /\ [][NextUI]_vars

----------------------------------------------------------------------------
(* The bloom chain under resizes and the Bloom and Bloom Levels controls   *)

(* simulation.render() *)
Render ==
  LET m == render(This)
  IN /\ Commit(m)
     /\ call' = Called("render", 0, 0, 0, <<>>, <<>>)
     /\ UNCHANGED <<ticks, pointers, page, presented, gesture, boot>>

(* ui.js: the Bloom Levels control (cfg.bloomLevels = value, no callback) *)
SetBloomLevels == UpdateConfigOf("bloomLevels", BloomLevelValues)

(* ui.js: the Bloom control (cfg.enableBloom = value) *)
SetEnableBloom == UpdateConfigOf("enableBloom", BOOLEAN)

ResizeWide == ResizeTo(BloomWidths, BloomHeights)

(* The caller of step passes one impulse that is down and has moved *)
AddMovingImpulse ==
  /\ Len(pointers) < MaxImpulses
  /\ pointers' = Append(pointers, Impulse(TRUE, TRUE, <<1, 0>>))
  /\ log' = <<>>
  /\ call' = Called("caller", 0, 0, 0, <<>>, <<>>)
  /\ UNCHANGED <<config, framebuffers, simSize, canvasSize, colorCycleTimer,
                 lastPointerColor, nextHandle, ticks, page, presented, gesture, boot>>

NextBloom == ResizeWide \/ SetBloomLevels \/ SetEnableBloom \/ Render

SpecBloom == InitOne /\ [][NextBloom]_vars

(* Every pass of a frame: step and render with and without bloom *)
NextPasses == AddMovingImpulse \/ Step \/ Render \/ SetEnableBloom

SpecPasses == InitOne /\ [][NextPasses]_vars

(* One pointer, the Bloom and Pause controls and the frame loop *)
FramePointerIds == {1}

FrameDown ==
  PointerDownOn(FramePointerIds, {0}, GestureXs, TopEdge, GestureColors)

FrameMove == PointerMoveOn(FramePointerIds, GestureXs, TopEdge)

NextFrame ==
  FrameDown \/ FrameMove \/ GestureFrame \/ SetEnableBloom \/ SetPaused

SpecFrame == InitOne /\ [][NextFrame]_vars

----------------------------------------------------------------------------
(* gl.js and main.js: loading the page *)

Environments ==
  {[webgl2 |-> w, colorBufferFloat |-> e, copyShader |-> c, shaders |-> s,
    incomplete |-> i] : w \in BOOLEAN, e \in BOOLEAN, c \in BOOLEAN,
                        s \in BOOLEAN, i \in BootIncompletes}

(* gl.js: createGLContext(canvas) *)
createGLContextQuadFirst(env) ==
  IF ~env.webgl2
  THEN [gl |-> FALSE, quadVAO |-> FALSE, blitMaterial |-> FALSE,
        error |-> "WebGL2 is not supported on this device."]
  ELSE IF ~env.colorBufferFloat
  THEN [gl |-> FALSE, quadVAO |-> TRUE, blitMaterial |-> FALSE,
        error |-> "Required extension EXT_color_buffer_float is unavailable."]
  ELSE IF ~env.copyShader
  THEN [gl |-> FALSE, quadVAO |-> TRUE, blitMaterial |-> FALSE,
        error |-> "Failed to compile shader"]
  ELSE [gl |-> TRUE, quadVAO |-> TRUE, blitMaterial |-> TRUE, error |-> ""]

createGLContext(env) ==
  IF ~env.webgl2
  THEN [gl |-> FALSE, quadVAO |-> FALSE, blitMaterial |-> FALSE,
        error |-> "WebGL2 is not supported on this device."]
  ELSE IF ~env.colorBufferFloat
  THEN [gl |-> FALSE, quadVAO |-> FALSE, blitMaterial |-> FALSE,
        error |-> "Required extension EXT_color_buffer_float is unavailable."]
  ELSE IF ~env.copyShader
  THEN [gl |-> FALSE, quadVAO |-> TRUE, blitMaterial |-> FALSE,
        error |-> "Failed to compile shader"]
  ELSE [gl |-> TRUE, quadVAO |-> TRUE, blitMaterial |-> TRUE, error |-> ""]

(* main.js: the module body (lines 15-42) in environment env, the canvas   *)
(* being width x height: what the page holds afterwards, and the           *)
(* simulation object as the constructor left it.                           *)
bootstrapNoRethrow(env, width, height, color) ==
  LET ctx == createGLContext(env)
      m   == Constructed(width, height, color,
                         [pressureIterations |-> MaxIterations], env)
  IN IF ctx.error # ""
     THEN [boot |-> [NotLoaded EXCEPT !.quadVAO = ctx.quadVAO,
                                      !.blitMaterial = ctx.blitMaterial,
                                      !.error = ctx.error,
                                      !.loop = TRUE, !.loaded = TRUE],
           m |-> Fresh(color, <<>>, env)]
     ELSE IF m.thrown
     THEN [boot |-> [NotLoaded EXCEPT !.gl = TRUE, !.quadVAO = TRUE,
                                      !.blitMaterial = TRUE,
                                      !.materials = env.shaders,
                                      !.error = IF ~env.shaders
                                                THEN "Failed to compile shader"
                                                ELSE "Framebuffer incomplete",
                                      !.loop = TRUE, !.loaded = TRUE],
           m |-> m]
     ELSE [boot |-> Started, m |-> m]

bootstrap(env, width, height, color) ==
  LET ctx == createGLContext(env)
      m   == Constructed(width, height, color,
                         [pressureIterations |-> MaxIterations], env)
  IN IF ctx.error # ""
     THEN [boot |-> [NotLoaded EXCEPT !.quadVAO = ctx.quadVAO,
                                      !.blitMaterial = ctx.blitMaterial,
                                      !.error = ctx.error,
                                      !.rethrown = TRUE, !.loaded = TRUE],
           m |-> Fresh(color, <<>>, env)]
     ELSE IF m.thrown
     THEN [boot |-> [NotLoaded EXCEPT !.gl = TRUE, !.quadVAO = TRUE,
                                      !.blitMaterial = TRUE,
                                      !.materials = env.shaders,
                                      !.error = IF ~env.shaders
                                                THEN "Failed to compile shader"
                                                ELSE "Framebuffer incomplete",
                                      !.rethrown = TRUE, !.loaded = TRUE],
           m |-> m]
     ELSE [boot |-> Started, m |-> m]

(* Before main.js runs: no context, no simulation object *)
InitBoot ==
  LET m == Fresh(<<1, 0, 0>>, <<>>, Healthy)
  IN /\ config = m.config
     /\ framebuffers = m.framebuffers
     /\ simSize = m.simSize
     /\ canvasSize = m.canvasSize
     /\ colorCycleTimer = m.colorCycleTimer
     /\ lastPointerColor = m.lastPointerColor
     /\ nextHandle = m.nextHandle
     /\ log = m.log
     /\ ticks = 0
     /\ pointers = <<>>
     /\ page = [now |-> 1000, lastFpsSample |-> 0, fps |-> 0, frames |-> 0]
     /\ presented = {}
     /\ gesture = <<>>
     /\ boot = NotLoaded
     /\ call = [op |-> "none", cfg |-> m.config,
                pre |-> m.framebuffers, preSize |-> m.simSize,
                preTimer |-> 0, preHandle |-> m.nextHandle,
                presented |-> {}, gesture |-> <<>>, dt |-> 0,
                width |-> 0, height |-> 0, in |-> <<>>, out |-> <<>>]

(* main.js is evaluated *)
Bootstrap ==
  \E env \in Environments, width \in BootDims, height \in BootDims :
    LET b == bootstrap(env, width, height, <<1, 0, 0>>)
    IN /\ ~boot.loaded
       /\ boot' = b.boot
       /\ Commit(b.m)
       /\ call' = Called("constructor", 0, width, height, <<>>, <<>>)
       /\ UNCHANGED <<ticks, pointers, page, presented, gesture>>

(* ui.js: onResize, the window's resize event: the canvas takes its new    *)
(* display size and the simulation is resized; one of the createFBO calls  *)
(* may find its framebuffer incomplete.  The exception ends the listener.  *)
WindowResizeTo(widths, heights) ==
  \E width \in widths, height \in heights, incomplete \in Incompletes :
    LET m == resize([This EXCEPT !.incomplete = incomplete], width, height)
    IN /\ boot.ui
       /\ <<width, height>> # <<canvasSize.width, canvasSize.height>>
       /\ m.nextHandle <= MaxHandle
       /\ Commit(m)
       /\ boot' = [boot EXCEPT !.faulted = boot.faulted \/ m.thrown]
       /\ call' = Called("resize", 0, width, height, <<>>, <<m.thrown>>)
       /\ UNCHANGED <<ticks, pointers, page, presented, gesture>>

WindowResize == WindowResizeTo(BootWidths, BootDims)

NextBoot == Bootstrap \/ WindowResize \/ Frame

SpecBoot == InitBoot /\ [][NextBoot]_vars

(* The bloom chain under window resizes whose allocations may fail: the   *)
(* canvas widths 4 and 5 give the same simulation width                    *)
WindowResizeNarrow == WindowResizeTo(ChainWidths, BootDims)

NextChain == WindowResizeNarrow \/ SetBloomLevels \/ Render

SpecChain == InitOne /\ [][NextChain]_vars

(* The double-buffered fields under resizes, ticks and a changing         *)
(* iteration count                                                         *)
ResizeField == ResizeTo(BootWidths, BootDims)

NextFields == ResizeField \/ Step \/ SetPressureIterations

SpecFields == InitOne /\ [][NextFields]_vars

(* The pressure stage under a changing iteration count *)
NextPressure == Step \/ SetPressureIterations

SpecPressure == Init /\ [][NextPressure]_vars

----------------------------------------------------------------------------
(* shaders.js: the arithmetic of the projection passes.  A field is a      *)
(* function from the texels <<i, j>> of a W x H grid to fixed-point        *)
(* numbers: the integer n stands for n / FixedOne.  FixedOne is the least  *)
(* power of two for which every product with 0.5 and 0.25 formed by the    *)
(* divergence pass, up to MaxIterations Jacobi passes, the gradient pass   *)
(* and a second divergence pass is an exact integer division, so the       *)
(* values are those a real-number evaluation of the shaders gives; the     *)
(* rounding of the half-float textures is left out.                        *)

FixedOne == 2 * 4 ^ (MaxIterations + 1)

Texels(W, H) == (0..(W - 1)) \X (0..(H - 1))

(* gl.js createTexture: TEXTURE_WRAP_S/T = CLAMP_TO_EDGE.  Every pass     *)
(* samples at vUv +- uTexelSize, the centre of the neighbouring texel,     *)
(* or of the edge texel itself outside the grid.                           *)
ClampToEdge(i, n) == Max(0, Min(n - 1, i))

texture(field, W, H, i, j) == field[<<ClampToEdge(i, W), ClampToEdge(j, H)>>]

(* gl.js blit: the draw call runs the fragment program, given as the       *)
(* function fragColor of the texel, once for every texel of the target    *)
(* and stores its output there                                             *)
RECURSIVE Draw(_, _)
Draw(fragColor, cells) ==
  IF cells = {}
    THEN <<>>
    ELSE LET c == CHOOSE d \in cells : TRUE
         IN (c :> fragColor[c]) @@ Draw(fragColor, cells \ {c})

(* gl.js createTexture: texImage2D(..., null) gives a zero-filled texture *)
ZeroField(W, H) == Draw([c \in Texels(W, H) |-> 0], Texels(W, H))

(* shaders.js: divergenceShader; velocity texels are pairs <<x, y>> *)
divergenceShader(uVelocity, W, H) ==
  Draw([c \in Texels(W, H) |->
         LET left   == texture(uVelocity, W, H, c[1] - 1, c[2])
             right  == texture(uVelocity, W, H, c[1] + 1, c[2])
             bottom == texture(uVelocity, W, H, c[1], c[2] - 1)
             top    == texture(uVelocity, W, H, c[1], c[2] + 1)
         IN (right[1] - left[1] + top[2] - bottom[2]) \div 2],
       Texels(W, H))

(* shaders.js: clearShader, uDecay = config.pressureDecay *)
clearShader(uPressure, W, H) ==
  Draw([c \in Texels(W, H) |-> (uPressure[c] * PressureDecayPermille) \div 1000],
       Texels(W, H))

(* shaders.js: pressureShader *)
pressureShader(uPressure, uDivergence, W, H) ==
  Draw([c \in Texels(W, H) |->
         LET left   == texture(uPressure, W, H, c[1] - 1, c[2])
             right  == texture(uPressure, W, H, c[1] + 1, c[2])
             bottom == texture(uPressure, W, H, c[1], c[2] - 1)
             top    == texture(uPressure, W, H, c[1], c[2] + 1)
         IN (left + right + bottom + top - uDivergence[c]) \div 4],
       Texels(W, H))

(* shaders.js: gradientSubtractShader *)
gradientAddShader(uPressure, uVelocity, W, H) ==
  Draw([c \in Texels(W, H) |->
         LET left   == texture(uPressure, W, H, c[1] - 1, c[2])
             right  == texture(uPressure, W, H, c[1] + 1, c[2])
             bottom == texture(uPressure, W, H, c[1], c[2] - 1)
             top    == texture(uPressure, W, H, c[1], c[2] + 1)
         IN <<uVelocity[c][1] + (right - left) \div 2,
              uVelocity[c][2] + (top - bottom) \div 2>>],
       Texels(W, H))
gradientSubtractShader(uPressure, uVelocity, W, H) ==
  Draw([c \in Texels(W, H) |->
         LET left   == texture(uPressure, W, H, c[1] - 1, c[2])
             right  == texture(uPressure, W, H, c[1] + 1, c[2])
             bottom == texture(uPressure, W, H, c[1], c[2] - 1)
             top    == texture(uPressure, W, H, c[1], c[2] + 1)
         IN <<uVelocity[c][1] - (right - left) \div 2,
              uVelocity[c][2] - (top - bottom) \div 2>>],
       Texels(W, H))

(* sim.js _solvePressure: the loop of pressureIterations Jacobi passes *)
RECURSIVE JacobiPasses(_, _, _, _, _)
JacobiPasses(pressure, divergence, W, H, iterations) ==
  IF iterations = 0
    THEN pressure
    ELSE JacobiPasses(pressureShader(pressure, divergence, W, H),
                      divergence, W, H, iterations - 1)

(* sim.js step: _computeDivergence, _solvePressure,                        *)
(* _subtractPressureGradient on the contents of velocity and pressure      *)
projectVelocity(velocity, pressure, W, H, iterations) ==
  LET divergence == divergenceShader(velocity, W, H)
      cleared    == clearShader(pressure, W, H)
      solved     == JacobiPasses(cleared, divergence, W, H, iterations)
  IN gradientSubtractShader(solved, velocity, W, H)

(* A velocity field made of a rotation of strength a and a radial flow of  *)
(* strength b about the centre of the grid (coordinates doubled, so that   *)
(* the centre of an even grid is integral).                                *)
RotationalPlusRadial(W, H, a, b) ==
  Draw([c \in Texels(W, H) |->
         LET x == 2 * c[1] - (W - 1)
             y == 2 * c[2] - (H - 1)
         IN <<(b * x - a * y) * FixedOne, (a * x + b * y) * FixedOne>>],
       Texels(W, H))

Abs(x) == IF x < 0 THEN -x ELSE x

RECURSIVE SumAbsOver(_, _)
SumAbsOver(field, cells) ==
  IF cells = {}
    THEN 0
    ELSE LET c == CHOOSE d \in cells : TRUE
         IN Abs(field[c]) + SumAbsOver(field, cells \ {c})

(* Sum of |divergence| over the grid: W * H times its average magnitude *)
TotalDivergence(velocity, W, H) ==
  SumAbsOver(divergenceShader(velocity, W, H), Texels(W, H))

(* The projection of a tick applied to a synthetic velocity field on the   *)
(* simulation grid, from the zero pressure of freshly allocated grids and  *)
(* with the configured iteration count; `call` records the total           *)
(* divergence before and after.                                            *)
Project ==
  \E a \in Rotations, b \in Radials :
    LET W         == simSize.width
        H         == simSize.height
        velocity  == RotationalPlusRadial(W, H, a, b)
        projected == projectVelocity(velocity, ZeroField(W, H), W, H,
                                     config.pressureIterations)
    IN /\ call' = Called("project", 0, W, H, <<a, b>>,
                         <<TotalDivergence(velocity, W, H),
                           TotalDivergence(projected, W, H)>>)
       /\ UNCHANGED <<config, framebuffers, simSize, canvasSize,
                      colorCycleTimer, lastPointerColor, nextHandle, ticks,
                      log, pointers, page, presented, gesture, boot>>

ResizeSmall == ResizeTo(ProjectWidths, ProjectHeights)

NextProject == ResizeSmall \/ SetPressureIterations \/ Project

SpecProject == InitOne /\ [][NextProject]_vars

----------------------------------------------------------------------------
(* Reading the record of the last call *)

RECURSIVE Repeat(_, _)
Repeat(block, n) == IF n <= 0 THEN <<>> ELSE block \o Repeat(block, n - 1)

IsBlit(e) == e.ev = "blit"
IsSwap(e) == e.ev = "swap"
Passes == SelectSeq(log, IsBlit)
PassNames == [i \in 1..Len(Passes) |-> <<Passes[i].prog, Passes[i].field>>]
EventNames == [i \in 1..Len(log) |-> <<log[i].ev, log[i].prog, log[i].field>>]

Qualifies(p) == p.down /\ p.moved /\ ~(p.delta[1] = 0 /\ p.delta[2] = 0)
QualifyingIn == {i \in 1..Len(call.in) : Qualifies(call.in[i])}

RanStep == call.op = "step" /\ ~call.cfg.paused
PausedStep == call.op = "step" /\ call.cfg.paused

(* Index in log of the n-th pass of program prog into field, 0 if none *)
PassAt(prog, field, n) ==
  LET hits == {i \in 1..Len(log) :
                 IsBlit(log[i]) /\ log[i].prog = prog /\ log[i].field = field}
  IN IF Cardinality(hits) < n THEN 0
     ELSE CHOOSE i \in hits : Cardinality({j \in hits : j <= i}) = n

(* The texture bound to sampler uniform name by pass e, 0 if none *)
Sampled(e, name) ==
  LET hits == {k \in 1..Len(e.srcs) : e.srcs[k][1] = name}
  IN IF hits = {} THEN 0 ELSE e.srcs[CHOOSE k \in hits : TRUE][2]

----------------------------------------------------------------------------
(* C1: a call of step made while config.paused is true issues no pass and  *)
(* no swap, and leaves the roles, dimensions and contents of velocity, dye *)
(* and pressure and the contents of divergence and curl as they were.      *)
C1_PausedStepIsNoOp ==
  PausedStep => /\ log = <<>>
                /\ framebuffers = call.pre
                /\ simSize = call.preSize

C1_Witness ==
  /\ PausedStep
  /\ ticks > 0
  /\ QualifyingIn # {}

CycleFired ==
  /\ call.cfg.cycleColors
  /\ call.preTimer + call.dt > call.cfg.colorCycleSpeed

C5_SplatChain ==
  RanStep =>
    LET n == Cardinality(QualifyingIn)
        q(j) == CHOOSE i \in QualifyingIn :
                  Cardinality({k \in QualifyingIn : k <= i}) = j
    IN /\ Cardinality({i \in 1..Len(log) : IsBlit(log[i]) /\ log[i].prog = "splat"
                                           /\ log[i].field = "velocity"}) = n
       /\ Cardinality({i \in 1..Len(log) : IsBlit(log[i]) /\ log[i].prog = "splat"
                                           /\ log[i].field = "density"}) = n
       /\ \A j \in 1..n :
            LET v == log[4 * j - 3]
                d == log[4 * j - 1]
                imp == call.in[q(j)]
            IN /\ <<v.ev, v.prog, v.field>> = <<"blit", "splat", "velocity">>
               /\ <<log[4 * j - 2].ev, log[4 * j - 2].field>> = <<"swap", "velocity">>
               /\ <<d.ev, d.prog, d.field>> = <<"blit", "splat", "density">>
               /\ <<log[4 * j].ev, log[4 * j].field>> = <<"swap", "density">>
               /\ v.args.uPoint = imp.position /\ d.args.uPoint = imp.position
               /\ v.args.uValue = <<imp.delta[1] * call.cfg.splatForce,
                                    imp.delta[2] * call.cfg.splatForce, 0, 0>>
               /\ d.args.uValue[4] = 1
               /\ Sampled(v, "uTarget") =
                    IF j = 1 THEN call.pre.velocity.read.h ELSE log[4 * j - 7].target
               /\ Sampled(d, "uTarget") =
                    IF j = 1 THEN call.pre.density.read.h ELSE log[4 * j - 5].target
               /\ v.target # Sampled(v, "uTarget")
               /\ d.target # Sampled(d, "uTarget")

C5_Witness ==
  /\ RanStep
  /\ Cardinality(QualifyingIn) = 2
  /\ ticks = 2

(* C6: an impulse whose delta is exactly (0,0), or that is not both down   *)
(* and moved, causes no splat pass and no swap of velocity or dye: only    *)
(* the impulses that are down and moved with a non-zero delta are splatted,*)
(* and when there is none the first pass of the tick (velocity advection)  *)
(* and its dye advection find both fields in the roles they had on entry.  *)
C6_NoOpImpulses ==
  RanStep =>
    /\ Cardinality({i \in 1..Len(log) : IsBlit(log[i]) /\ log[i].prog = "splat"})
         = 2 * Cardinality(QualifyingIn)
    /\ \A i \in 1..Len(call.in) : i \notin QualifyingIn => call.out[i] = call.in[i]
    /\ QualifyingIn = {} =>
         /\ EventNames[1] = <<"blit", "advection", "velocity">>
         /\ log[1].target = call.pre.velocity.write.h
         /\ Sampled(log[1], "uSource") = call.pre.velocity.read.h
         /\ Sampled(log[Len(log) - 1], "uSource") = call.pre.density.read.h
         /\ log[Len(log) - 1].target = call.pre.density.write.h
         /\ Cardinality({i \in 1..Len(log) : IsSwap(log[i]) /\ log[i].field = "velocity"}) = 3
         /\ Cardinality({i \in 1..Len(log) : IsSwap(log[i]) /\ log[i].field = "density"}) = 1

C6_Witness ==
  /\ RanStep
  /\ QualifyingIn = {}
  /\ \E i \in 1..Len(call.in) :
       call.in[i].down /\ call.in[i].moved /\ call.in[i].delta = <<0, 0>>
  /\ \E i \in 1..Len(call.in) : ~call.in[i].down \/ ~call.in[i].moved

(* C10: in every non-paused tick the velocity texture sampled by the dye-  *)
(* advection pass is the grid written by that tick's projection pass.      *)
C10_DyeAlongProjectedVelocity ==
  RanStep =>
    LET g == PassAt("gradient", "velocity", 1)
        a == PassAt("advection", "density", 1)
    IN /\ g # 0 /\ a # 0 /\ g < a
       /\ Sampled(log[a], "uVelocity") = log[g].target
       /\ \A i \in (g + 1)..(a - 1) : ~(IsBlit(log[i]) /\ log[i].field = "velocity")
       /\ framebuffers.velocity.read.h = log[g].target
       /\ framebuffers.velocity.read.content = <<ticks, g>>

C10_Witness ==
  /\ RanStep
  /\ ticks = 2
  /\ QualifyingIn # {}

(* C7: the pressure stage of a tick issues exactly one decay pass followed *)
(* by exactly pressureIterations Jacobi passes, with one swap of pressure  *)
(* after each of them; with pressureIterations = 0 the pressure read grid  *)
(* after the stage is the grid written by the decay pass.                  *)
PressureEvents ==
  SelectSeq(EventNames, LAMBDA n : n[3] = "pressure")

C7_PressureStage ==
  RanStep =>
    LET k == call.cfg.pressureIterations
        c == PassAt("clear", "pressure", 1)
        last == IF k = 0 THEN c ELSE PassAt("pressure", "pressure", k)
    IN /\ PressureEvents =
            << <<"blit", "clear", "pressure">>, <<"swap", "", "pressure">> >>
            \o Repeat(<< <<"blit", "pressure", "pressure">>,
                         <<"swap", "", "pressure">> >>, k)
       /\ Cardinality({i \in 1..Len(log) : IsSwap(log[i]) /\ log[i].field = "pressure"})
            = k + 1
       /\ c # 0 /\ last # 0
       /\ log[c].target = call.pre.pressure.write.h
       /\ Sampled(log[c], "uPressure") = call.pre.pressure.read.h
       /\ framebuffers.pressure.read.h = log[last].target
       /\ framebuffers.pressure.read.content = <<ticks, last>>
       /\ \A j \in 1..k :
            LET e == log[PassAt("pressure", "pressure", j)]
            IN /\ Sampled(e, "uPressure") # e.target
               /\ Sampled(e, "uPressure") =
                    IF j = 1 THEN log[c].target
                    ELSE log[PassAt("pressure", "pressure", j - 1)].target

C7_Witness ==
  /\ RanStep
  /\ call.cfg.pressureIterations = 0
  /\ ticks = 2
  /\ framebuffers.pressure.read.h = call.pre.pressure.write.h
  /\ call.pre.pressure.read.content # Blank

(* The grids of the simulation fields *)
SimGrids(fb) ==
  {fb.velocity.read, fb.velocity.write, fb.density.read, fb.density.write,
   fb.pressure.read, fb.pressure.write, fb.divergence, fb.curl}

(* C8: a call resize(w,h) whose computed simulation dimensions equal the   *)
(* current simSize reallocates nothing: every simulation grid and bloom    *)
(* buffer keeps its resource handle, dimensions and contents.              *)
C8_SameSizeResizeIsNoOp ==
  (/\ call.op = "resize"
   /\ call.preSize.width = ensureDimension(call.width, call.cfg.texelDownsample)
   /\ call.preSize.height = ensureDimension(call.height, call.cfg.texelDownsample))
  => /\ framebuffers = call.pre
     /\ simSize = call.preSize
     /\ nextHandle = call.preHandle
     /\ log = <<>>

C8_Witness ==
  /\ call.op = "resize"
  /\ call.preSize.width = ensureDimension(call.width, call.cfg.texelDownsample)
  /\ call.preSize.height = ensureDimension(call.height, call.cfg.texelDownsample)
  /\ call.width = 13
  /\ framebuffers.bloom[1].buffer.width = 6
  /\ framebuffers.density.read.content # Blank

(* C9: after every call resize(w,h), with d the texelDownsample value at   *)
(* the call, simSize is (max(2, floor(w/d)), max(2, floor(h/d))) and both  *)
(* halves of velocity, dye and pressure and the divergence and curl grids  *)
(* all have exactly that width and height.                                 *)
C9_ResizeDimensions ==
  call.op \in {"resize", "constructor"} =>
    LET w == Max(2, call.width \div call.cfg.texelDownsample)
        h == Max(2, call.height \div call.cfg.texelDownsample)
    IN /\ simSize = [width |-> w, height |-> h]
       /\ \A g \in SimGrids(framebuffers) : g.width = w /\ g.height = h

C9_Witness ==
  /\ call.op = "resize"
  /\ call.width \div call.cfg.texelDownsample < 2
  /\ call.height \div call.cfg.texelDownsample > 2
  /\ simSize # call.preSize
  /\ ticks > 0

(* C3: an impulse presented to step during a paused tick is dropped, not   *)
(* queued: if no pointer event occurs for that pointer afterwards, no      *)
(* later unpaused tick issues a splat for it.                              *)
C3_PausedImpulseDropped ==
  (call.op = "frame" /\ ~call.cfg.paused) =>
    \A i \in 1..Len(call.in) :
      call.in[i].id \in call.presented =>
        /\ ~(call.in[i].moved /\ ~call.out[i].moved)
        /\ PassAt("splat", "velocity", 1) = 0

(* C11: for every step call with elapsed time e, the time step handed to   *)
(* the velocity-advection, vorticity and dye-advection passes is           *)
(* min(e, 0.016 s); no pass of any tick receives a time step above 0.016 s.*)
C11_TimeStepCapped ==
  RanStep =>
    LET capped == IF call.dt <= DtCap THEN call.dt ELSE DtCap
        av == PassAt("advection", "velocity", 1)
        vo == PassAt("vorticity", "velocity", 1)
        ad == PassAt("advection", "density", 1)
    IN /\ av # 0 /\ vo # 0 /\ ad # 0
       /\ log[av].args.dt = capped
       /\ log[vo].args.dt = capped
       /\ log[ad].args.dt = capped
       /\ \A i \in 1..Len(log) : log[i].args.dt <= DtCap

C11_Witness ==
  /\ RanStep
  /\ call.dt > DtCap
  /\ ticks = 2
  /\ call.preTimer > 0

(* n halved k times, rounding down each time *)
Halved(n, k) == n \div (2 ^ k)

(* The last call rebuilt the bloom chain *)
Rebuilt ==
  \/ call.op = "constructor"
  \/ call.op = "resize" /\ simSize # call.preSize

(* The bloom passes of the last call, and the display pass *)
ProgNames == [i \in 1..Len(Passes) |-> Passes[i].prog]

(* C12: whenever bloomLevels is 1 at the time of a render with bloom       *)
(* enabled, the bloom chain issues only the prefilter pass and the two     *)
(* blur passes of level 0, no downsample copy and no combine pass, and     *)
(* returns level 0's buffer.                                               *)
C12_SingleLevelBloom ==
  (call.op = "render" /\ config.enableBloom /\ config.bloomLevels = 1) =>
    /\ ProgNames = <<"bloomPrefilter", "bloomBlur", "bloomBlur", "display">>
    /\ Passes[1].target = framebuffers.bloom[1].buffer.h
    /\ Passes[2].target = framebuffers.bloom[1].temp.h
    /\ Passes[3].target = framebuffers.bloom[1].buffer.h
    /\ Sampled(Passes[4], "uBloom") = framebuffers.bloom[1].buffer.h

(* C13, as stated: a requested level is omitted only if allocating it would *)
(* need a dimension below 2: the chain built for L requested levels has    *)
(* exactly as many levels as there are successively halved levels, among   *)
(* the first L, with both dimensions at least 2.                           *)
C13_TruncatedOnlyBelowTwo ==
  Rebuilt =>
    LET L == Max(1, call.cfg.bloomLevels)
        fits == {k \in 1..L : Halved(call.width, k) >= 2}
    IN Len(framebuffers.bloom) = Cardinality(fits)

(* C13, amended: level 0 is always allocated, its dimensions clamped to at *)
(* least 2; a further requested level is allocated exactly if its halved   *)
(* dimensions, and those of every level before it after the first, are at  *)
(* least 3.  The chain so stops before the first level whose halved        *)
(* dimension would be 2 or less, and every level has the halved dimensions. *)
C13_TruncatedAtTwo ==
  Rebuilt =>
    LET L == Max(1, call.cfg.bloomLevels)
        more == {k \in 2..L : Halved(call.width, k) >= 3}
        n == 1 + Cardinality(more)
    IN /\ Len(framebuffers.bloom) = n
       /\ \A k \in 1..Len(framebuffers.bloom) :
            LET level == framebuffers.bloom[k]
                d == Max(2, Halved(call.width, k))
            IN /\ level.buffer.width = d /\ level.buffer.height = d
               /\ level.temp.width = d /\ level.temp.height = d

C13_Witness ==
  /\ call.op = "resize"
  /\ Rebuilt
  /\ call.width = 8
  /\ call.cfg.bloomLevels >= 2
  /\ Len(framebuffers.bloom) = 1
  /\ framebuffers.bloom[1].buffer.width = 4

(* C14: at every render, the number of allocated bloom levels is the one   *)
(* determined by the current value of config.bloomLevels (after            *)
(* truncation), not by a value it had earlier.                             *)
C14_BloomLevelsCurrent ==
  call.op = "render" =>
    Len(framebuffers.bloom) =
      Len(_setupBloomBuffers(This, canvasSize.width,
                             canvasSize.width).framebuffers.bloom)

(* The errors createGLContext raises when the context cannot be created *)
ContextErrors ==
  {"WebGL2 is not supported on this device.",
   "Required extension EXT_color_buffer_float is unavailable."}

(* C15: if context creation fails (no WebGL2 context or no                 *)
(* EXT_color_buffer_float), the error is raised before the fullscreen      *)
(* quad, any material or any framebuffer is created, it reaches the driver *)
(* (banner and rethrow), and no step or render is invoked afterwards: the  *)
(* frame loop is never started.                                            *)
C15_ContextFailureIsFatal ==
  boot.error \in ContextErrors =>
    /\ ~boot.gl /\ ~boot.quadVAO /\ ~boot.blitMaterial /\ ~boot.materials
    /\ nextHandle = 1
    /\ \A f \in FieldNames : framebuffers[f] = NullField
    /\ framebuffers.divergence = NullGrid /\ framebuffers.curl = NullGrid
    /\ framebuffers.bloom = <<>>
    /\ boot.rethrown /\ ~boot.simulation /\ ~boot.ui
    /\ ~boot.loop
    /\ call.op \notin {"frame", "step", "render"}
    /\ page.frames = 0 /\ ticks = 0 /\ log = <<>>

C15_Witness ==
  /\ boot.loaded
  /\ boot.error = "Required extension EXT_color_buffer_float is unavailable."

(* Every grid of the pipeline is allocated *)
Complete(fb) ==
  /\ \A f \in FieldNames : fb[f].read.h # 0 /\ fb[f].write.h # 0
  /\ fb.divergence.h # 0 /\ fb.curl.h # 0
  /\ \A k \in 1..Len(fb.bloom) :
       fb.bloom[k].buffer.h # 0 /\ fb.bloom[k].temp.h # 0

(* C16: no tick runs against a partially constructed pipeline: whenever    *)
(* the frame loop runs, and whenever step and render were invoked, all     *)
(* five simulation fields are allocated and every bloom level of the chain *)
(* has its buffer and its temp grid, also after a shader or framebuffer    *)
(* failure in the constructor or in a resize; the tick then issues its     *)
(* whole pass sequence.                                                    *)
C16_NoPartialPipeline ==
  /\ boot.loop => boot.simulation /\ boot.error = "" /\ Complete(framebuffers)
  /\ boot.error # "" => /\ boot.rethrown /\ ~boot.loop /\ ~boot.simulation
                        /\ page.frames = 0 /\ ticks = 0
  /\ call.op = "frame" =>
       /\ Complete(call.pre)
       /\ Passes # <<>>
       /\ Passes[Len(Passes)].prog = "display"
       /\ ~call.cfg.paused => PassAt("advection", "density", 1) # 0

C16_Witness ==
  /\ call.op = "frame"
  /\ boot.faulted
  /\ canvasSize.width = 12
  /\ Len(call.pre.bloom) = 1
  /\ ticks > 0

(* The number of swaps of field f among the first n events of the call *)
SwapsBefore(f, n) ==
  Cardinality({j \in 1..n : IsSwap(log[j]) /\ log[j].field = f})

(* The grids field f had as read and write just before event i *)
ReadAt(f, i) ==
  IF SwapsBefore(f, i - 1) % 2 = 0 THEN call.pre[f].read.h
  ELSE call.pre[f].write.h
WriteAt(f, i) ==
  IF SwapsBefore(f, i - 1) % 2 = 0 THEN call.pre[f].write.h
  ELSE call.pre[f].read.h

(* The textures pass e samples *)
SampledBy(e) == {e.srcs[k][2] : k \in 1..Len(e.srcs)}

(* C18: every pass that advances velocity, dye or pressure renders into    *)
(* the field's write grid, samples no write grid, and is immediately       *)
(* followed by the swap of that field, so that every later pass sampling   *)
(* the field before its next advance reads exactly the grid just written.  *)
C18_WriteThenSwap ==
  RanStep =>
    \A i \in 1..Len(log) :
      (IsBlit(log[i]) /\ log[i].field \in FieldNames) =>
        LET f == log[i].field
            later == {j \in (i + 1)..Len(log) :
                        IsBlit(log[j]) /\ log[j].field = f}
            upto == IF later = {} THEN Len(log)
                    ELSE CHOOSE j \in later : \A k \in later : j <= k
        IN /\ log[i].target = WriteAt(f, i)
           /\ \A g \in FieldNames : WriteAt(g, i) \notin SampledBy(log[i])
           /\ i < Len(log)
           /\ IsSwap(log[i + 1]) /\ log[i + 1].field = f
           /\ \A j \in (i + 1)..upto :
                IsBlit(log[j]) =>
                  /\ WriteAt(f, j) \notin SampledBy(log[j])
                  /\ ReadAt(f, j) = log[i].target
           /\ later = {} => framebuffers[f].read.h = log[i].target

C18_Witness ==
  /\ RanStep
  /\ QualifyingIn # {}
  /\ call.cfg.pressureIterations = 2
  /\ ticks = 2

(* The grids the constructor allocates for the fields *)
Allocated == Constructed(12, 12, <<1, 0, 0>>, <<>>, Healthy).framebuffers

(* C19: in every reachable state, for each of velocity, dye and pressure,  *)
(* read and write are two distinct grids, the two created at allocation,   *)
(* of equal width, height and format; a swap only exchanges their roles,   *)
(* so an even number of swaps restores the roles.                          *)
C19_ReadWritePair ==
  /\ \A f \in FieldNames :
       LET r == framebuffers[f].read
           w == framebuffers[f].write
       IN /\ r.h # w.h
          /\ {r.h, w.h} = {Allocated[f].read.h, Allocated[f].write.h}
          /\ r.width = w.width /\ r.height = w.height
          /\ r.texelSize = w.texelSize
          /\ r.format = w.format /\ r.format = Allocated[f].read.format
  /\ call.op = "step" =>
       \A f \in FieldNames :
         IF SwapsBefore(f, Len(log)) % 2 = 0
         THEN /\ framebuffers[f].read.h = call.pre[f].read.h
              /\ framebuffers[f].write.h = call.pre[f].write.h
         ELSE /\ framebuffers[f].read.h = call.pre[f].write.h
              /\ framebuffers[f].write.h = call.pre[f].read.h

C19_Witness ==
  /\ RanStep
  /\ call.cfg.pressureIterations = 1
  /\ framebuffers.pressure.read.h = call.pre.pressure.read.h
  /\ framebuffers.velocity.read.h = call.pre.velocity.write.h
  /\ simSize.width = 2
  /\ ticks = 2

(* C20: no pass of step or render, the prefilter, downsample-copy, blur,   *)
(* combine and copy passes of the bloom chain included, samples a texture  *)
(* of the grid it renders into.                                            *)
C20_NoFeedback ==
  call.op \in {"step", "render"} =>
    \A i \in 1..Len(log) :
      IsBlit(log[i]) => log[i].target \notin SampledBy(log[i])

C20_Witness ==
  /\ call.op = "render"
  /\ call.cfg.enableBloom
  /\ PassAt("bloomPrefilter", "bloom", 1) # 0
  /\ PassAt("copy", "bloom", 2) # 0
  /\ PassAt("bloomBlur", "bloom", 4) # 0
  /\ PassAt("bloomCombine", "bloom", 1) # 0
  /\ framebuffers.density.read.content # Blank

----------------------------------------------------------------------------
Effective ==
  /\ call.cfg.pressureIterations >= 1
  /\ call.width > 2 \/ call.height > 2

----------------------------------------------------------------------------
(* What pass k of the last call was: program, target grid, textures         *)
(* sampled in the order of the uniforms, blur direction                     *)
PassIs(k, prog, target, sampled, direction) ==
  /\ Passes[k].prog = prog
  /\ Passes[k].target = target
  /\ [j \in 1..Len(Passes[k].srcs) |-> Passes[k].srcs[j][2]] = sampled
  /\ Passes[k].args.uPoint = direction

(* The last call was a render that ran the bloom chain *)
BloomRendered ==
  /\ call.op = "render"
  /\ call.cfg.enableBloom
  /\ Len(call.pre.bloom) > 0

(* C21: for a bloom chain of n levels, one run issues, in order: one       *)
(* prefilter pass into level 0's buffer; a copy of level i-1's buffer into *)
(* level i's buffer for i = 1..n-1 in increasing i; for each level a       *)
(* horizontal blur from buffer into temp followed by a vertical blur from  *)
(* temp back into buffer; then for i = n-2 down to 0 a combine of level    *)
(* i's buffer with level i+1's buffer into level i's temp followed by a    *)
(* copy of that temp into level i's buffer; and it returns level 0's       *)
(* buffer (levels are numbered from 1 below).                              *)
C21_BloomPassOrder ==
  BloomRendered =>
    LET bloom == call.pre.bloom
        n == Len(bloom)
        dye == call.pre.density.read.h
    IN /\ Len(Passes) = 5 * n - 1
       /\ Len(log) = Len(Passes)
       /\ PassIs(1, "bloomPrefilter", bloom[1].buffer.h, <<dye>>, <<0, 0>>)
       /\ \A i \in 2..n :
            PassIs(i, "copy", bloom[i].buffer.h, <<bloom[i - 1].buffer.h>>,
                   <<0, 0>>)
       /\ \A i \in 1..n :
            /\ PassIs(n + 2 * i - 1, "bloomBlur", bloom[i].temp.h,
                      <<bloom[i].buffer.h>>, <<1, 0>>)
            /\ PassIs(n + 2 * i, "bloomBlur", bloom[i].buffer.h,
                      <<bloom[i].temp.h>>, <<0, 1>>)
       /\ \A j \in 1..(n - 1) :
            LET i == n - j
            IN /\ PassIs(3 * n + 2 * j - 1, "bloomCombine", bloom[i].temp.h,
                         <<bloom[i].buffer.h, bloom[i + 1].buffer.h>>, <<0, 0>>)
               /\ PassIs(3 * n + 2 * j, "copy", bloom[i].buffer.h,
                         <<bloom[i].temp.h>>, <<0, 0>>)
       /\ PassIs(5 * n - 1, "display", 0, <<dye, bloom[1].buffer.h>>, <<0, 0>>)

C21_Witness ==
  /\ BloomRendered
  /\ Len(call.pre.bloom) = 3
  /\ Len(Passes) = 14
  /\ Passes[10].prog = "bloomCombine"

----------------------------------------------------------------------------
(* C23: after a resize(W, H) that rebuilds the bloom chain, bloom level 0  *)
(* has width max(2, floor(W/2)) and height max(2, floor(H/2)), half the    *)
(* output surface in each axis.                                            *)
C23_BloomBaseIsHalfSurface ==
  (call.op = "resize" /\ Rebuilt) =>
    /\ Len(framebuffers.bloom) >= 1
    /\ \A part \in {"buffer", "temp"} :
         /\ framebuffers.bloom[1][part].width = Max(2, call.width \div 2)
         /\ framebuffers.bloom[1][part].height = Max(2, call.height \div 2)

----------------------------------------------------------------------------
(* Every allocated grid of fb, the bloom buffers included *)
AllGrids(fb) ==
  {g \in SimGrids(fb) \cup
         {fb.bloom[k][part] : k \in 1..Len(fb.bloom), part \in {"buffer", "temp"}} :
     g.h # 0}

(* C24: for every grid in every reachable state, texelSize equals          *)
(* (1/width, 1/height) of the grid's current width and height, also right  *)
(* after createFBO and after every resizeFBO that changes the dimensions   *)
(* (texelSize is kept as the pair of denominators).                        *)
C24_TexelSizeCurrent ==
  \A g \in AllGrids(framebuffers) :
    /\ g.width >= 1 /\ g.height >= 1
    /\ g.texelSize = <<g.width, g.height>>

C24_Witness ==
  /\ call.op = "resize"
  /\ framebuffers.velocity.read.h = call.pre.velocity.read.h
  /\ framebuffers.velocity.read.width # call.pre.velocity.read.width
  /\ framebuffers.velocity.read.height # call.pre.velocity.read.height
  /\ framebuffers.velocity.read.texelSize # call.pre.velocity.read.texelSize
  /\ \E g \in AllGrids(framebuffers) : g.h >= call.preHandle

----------------------------------------------------------------------------
(* The last call was a resize that returned normally *)
ResizeReturned == call.op = "resize" /\ call.out = <<FALSE>>

(* C22: in every reachable state the bloom chain has at least one level    *)
(* after a successful resize, each level's buffer and temp grids have      *)
(* identical dimensions, both dimensions of every level are at least 2,    *)
(* and each level i+1 has dimensions max(2, floor(w_i/2)) by               *)
(* max(2, floor(h_i/2)) of level i.                                        *)
C22_BloomChainShape ==
  LET bloom == framebuffers.bloom
  IN /\ ResizeReturned => Len(bloom) >= 1
     /\ \A k \in 1..Len(bloom) :
          /\ bloom[k].buffer.width = bloom[k].temp.width
          /\ bloom[k].buffer.height = bloom[k].temp.height
          /\ bloom[k].buffer.width >= 2 /\ bloom[k].buffer.height >= 2
     /\ \A k \in 1..(Len(bloom) - 1) :
          /\ bloom[k + 1].buffer.width = Max(2, bloom[k].buffer.width \div 2)
          /\ bloom[k + 1].buffer.height = Max(2, bloom[k].buffer.height \div 2)

----------------------------------------------------------------------------
(* C26: render never changes simulation state: it writes to no velocity,   *)
(* dye, pressure, divergence or curl grid and performs no swap; and when   *)
(* enableBloom is false it issues exactly one pass (the display pass) and  *)
(* writes to no bloom buffer.                                              *)
C26_RenderLeavesSimulation ==
  call.op = "render" =>
    /\ \A f \in FieldNames \cup {"divergence", "curl"} :
         framebuffers[f] = call.pre[f]
    /\ \A i \in 1..Len(log) :
         /\ ~IsSwap(log[i])
         /\ log[i].field \in {"bloom", "screen"}
    /\ config = call.cfg
    /\ simSize = call.preSize
    /\ colorCycleTimer = call.preTimer
    /\ nextHandle = call.preHandle
    /\ ~call.cfg.enableBloom =>
         /\ PassNames = << <<"display", "screen">> >>
         /\ framebuffers.bloom = call.pre.bloom

C26_Witness ==
  /\ call.op = "render"
  /\ ~call.cfg.enableBloom
  /\ Len(log) = 1
  /\ Len(framebuffers.bloom) = 2
  /\ framebuffers.density.read.content # Blank
  /\ framebuffers.bloom[1].buffer.content # Blank

----------------------------------------------------------------------------
(* The ids of a sequence of pointer records *)
IdsOf(ptrs) == {ptrs[i].id : i \in 1..Len(ptrs)}

(* The last call was a frame whose step ran *)
RanFrame == call.op = "frame" /\ ~call.cfg.paused

(* C27: under any interleaving of pointerdown, pointermove, pointerup and  *)
(* pointercancel events with frames, the set of impulses handed to step is *)
(* exactly the set of pointers that were pressed with the primary button   *)
(* and not yet released or cancelled: a move for an unknown pointer id     *)
(* creates no record, and a pointer that was released or cancelled is      *)
(* never passed to a later step.                                           *)
C27_HeldPointersHanded ==
  /\ IdsOf(pointers) = DOMAIN gesture
  /\ Len(pointers) = Cardinality(DOMAIN gesture)
  /\ call.op = "frame" =>
       /\ IdsOf(call.in) = DOMAIN call.gesture
       /\ Len(call.in) = Cardinality(DOMAIN call.gesture)
       /\ \A i \in 1..Len(call.in) : call.in[i].down

C27_Witness ==
  /\ call.op = "frame"
  /\ IdsOf(call.in) = {2}
  /\ ticks = 2
  /\ PassAt("splat", "velocity", 1) # 0

(* The passes of the last call that splat into field *)
SplatsInto(field) ==
  {i \in 1..Len(log) :
     IsBlit(log[i]) /\ log[i].prog = "splat" /\ log[i].field = field}

(* C29: a pointer press alone never produces a splat, and each pointer     *)
(* produces at most one splat (one velocity and one dye pass) per tick and *)
(* none in a tick that follows no new move event since its last applied    *)
(* splat: a splat is issued for a pointer only if at least one move event  *)
(* for it occurred after its press and after its previously applied splat. *)
C29_SplatOnlyAfterMove ==
  RanFrame =>
    LET applied == SplatApplied(call.in, call.out)
    IN /\ Cardinality(SplatsInto("velocity")) = Cardinality(applied)
       /\ Cardinality(SplatsInto("density")) = Cardinality(applied)
       /\ \A i \in SplatsInto("velocity") :
            \E j \in 1..Len(call.in) :
              /\ call.in[j].id \in applied
              /\ log[i].args.uPoint = call.in[j].position
       /\ \A id \in applied :
            id \in DOMAIN call.gesture /\ call.gesture[id].fresh

C29_Witness ==
  /\ RanFrame
  /\ ticks = 2
  /\ Len(call.in) = 2
  /\ SplatApplied(call.in, call.out) = {1}
  /\ call.gesture[2].fresh = FALSE
  /\ call.in[2].delta # <<0, 0>>

(* C28: the delta of an impulse consumed by a tick is frame-to-frame: it   *)
(* equals the pointer's position at this tick minus its position at the    *)
(* previous tick, for any number of pointer move events delivered between  *)
(* the two ticks.                                                          *)
C28_FrameToFrameDelta ==
  RanFrame =>
    \A i \in 1..Len(call.in) :
      call.in[i].id \in SplatApplied(call.in, call.out) =>
        LET at == call.gesture[call.in[i].id].at
        IN call.in[i].delta = <<call.in[i].position[1] - at[1],
                                call.in[i].position[2] - at[2]>>

(* C25: within one frame the passes are issued in this order: all passes   *)
(* of step, then the bloom passes if bloom is enabled and the chain is not *)
(* empty, then the display pass; the display pass is the last pass of the  *)
(* frame and the only one that targets the output surface.                 *)
C25_FramePassOrder ==
  call.op = "frame" =>
    LET n == Len(log)
        bloomOn == call.cfg.enableBloom /\ Len(call.pre.bloom) > 0
        OfBloom(i) == log[i].field = "bloom"
        OnSurface(i) == IsBlit(log[i]) /\ log[i].target = 0
    IN /\ n >= 1
       /\ OnSurface(n)
       /\ log[n].prog = "display"
       /\ \A i \in 1..(n - 1) : ~OnSurface(i) /\ log[i].prog # "display"
       /\ \A i \in 1..(n - 1) : \A j \in i..(n - 1) : OfBloom(i) => OfBloom(j)
       /\ (\E i \in 1..(n - 1) : OfBloom(i)) <=> bloomOn
       /\ bloomOn =>
            Cardinality({i \in 1..(n - 1) : OfBloom(i)}) =
              5 * Len(call.pre.bloom) - 2
       /\ call.cfg.paused => \A i \in 1..(n - 1) : OfBloom(i)
       /\ ~call.cfg.paused =>
            /\ ~OfBloom(1)
            /\ PassAt("advection", "velocity", 1) # 0
            /\ PassAt("advection", "density", 1) # 0

C25_Witness ==
  /\ call.op = "frame"
  /\ ~call.cfg.paused
  /\ call.cfg.enableBloom
  /\ PassAt("splat", "velocity", 1) # 0
  /\ PassAt("bloomCombine", "bloom", 1) # 0
  /\ log[Len(log)].prog = "display"

====
